---------------------------- MODULE Spec2Model ----------------------------
(***************************************************************************)
(* Bin packing solvers of src/Algoritmos.py (theoretical minimum, branch   *)
(* and bound, Next/First/Best Fit and their Decreasing variants) and the   *)
(* genetic algorithm of src/Genetico.py.                                   *)
(*                                                                         *)
(* A packing is a sequence of bins, a bin a sequence of item sizes in      *)
(* placement order.  A solver's result is the record                      *)
(*   [inf |-> BOOLEAN, n |-> bin count, cajas |-> bins]                    *)
(* where inf = TRUE stands for the count float('inf').                     *)
(***************************************************************************)
EXTENDS Integers, Sequences, FiniteSets

VARIABLES
    capacidad,           \* input: capacity of every bin
    items,               \* input: sequence of item sizes
    pc,                  \* position of the call
    alg,                 \* the solver called
    res,                 \* what the solver returned
    population_size,     \* GA parameter
    generations,         \* GA parameter
    mutation_rate,       \* GA parameter, in units of 1/RateDen
    patience_no_change,  \* GA parameter
    population,          \* GA: current population
    best_overall,        \* GA: best vector seen so far
    best_bins_overall,   \* GA: its number of distinct labels
    last_best_bins,      \* GA: best bin count of the previous generation (None before the first)
    gens_without_change, \* GA: generations without change of the best bin count
    history_bins,        \* GA: best bin count of every generation
    gen,                 \* GA: iterations of the generation loop started
    stopped,             \* GA: the loop was left by `break`
    best,                \* GA: the vector returned
    err                  \* the exception raised ("" when none)

vars == <<capacidad, items, pc, alg, res, population_size, generations,
          mutation_rate, patience_no_change, population, best_overall,
          best_bins_overall, last_best_bins, gens_without_change,
          history_bins, gen, stopped, best, err>>

gaVars == <<population_size, generations, mutation_rate, patience_no_change,
            population, best_overall, best_bins_overall, last_best_bins,
            gens_without_change, history_bins, gen, stopped, best>>

-----------------------------------------------------------------------------
(* Bounds of the inputs. *)

\* SpecPack: all six deterministic solvers
MaxLen == 5
MaxSize == 4
MaxCap == 5
\* SpecDec: First/Best Fit against their Decreasing variants
MaxLenDec == 6
MaxSizeDec == 3
MaxCapDec == 7

-----------------------------------------------------------------------------
(* Python built-ins. *)

RECURSIVE Sum(_)
\* sum(seq)
Sum(s) == IF s = <<>> THEN 0 ELSE Head(s) + Sum(Tail(s))

\* math.ceil(a / b) for a >= 0, b > 0
Ceil(a, b) == (a + b - 1) \div b

\* max(a, b)
Max(a, b) == IF a >= b THEN a ELSE b

RECURSIVE InsertDesc(_, _)
\* x placed after every element >= x of the descending sequence s
InsertDesc(s, x) ==
    IF s = <<>> THEN <<x>>
    ELSE IF Head(s) >= x THEN <<Head(s)>> \o InsertDesc(Tail(s), x)
    ELSE <<x>> \o s

RECURSIVE SortedAsc(_)
\* sorted(seq): the sort without reverse=True
SortedAsc(s) ==
    IF s = <<>> THEN <<>>
    ELSE LET r == SortedAsc(SubSeq(s, 1, Len(s) - 1))
             k == Cardinality({i \in DOMAIN r : r[i] <= s[Len(s)]})
         IN SubSeq(r, 1, k) \o <<s[Len(s)]>> \o SubSeq(r, k + 1, Len(r))

RECURSIVE SortedDesc(_)
\* sorted(seq, reverse=True): stable, so an element follows its equals
SortedDesc(s) ==
    IF s = <<>> THEN <<>>
    ELSE InsertDesc(SortedDesc(SubSeq(s, 1, Len(s) - 1)), s[Len(s)])

\* the sequences over S of length 0..n
SeqsUpTo(S, n) == UNION {[1..k -> S] : k \in 0..n}

-----------------------------------------------------------------------------
(* src/Algoritmos.py *)

minimo_teorico(c, lista) == Ceil(Sum(lista), c)

Result(k, cajas) == [inf |-> FALSE, n |-> k, cajas |-> cajas]

\* ---- resultado_optimo ----

\* mejor_num_cajas = float('inf'), mejor_cajas = []
NoBest == [inf |-> TRUE, n |-> 0, cajas |-> <<>>]

\* k < mejor_num_cajas
LessThanBest(k, mejor) == mejor.inf \/ k < mejor.n

calcular_lower_bound_plus(c, num_cajas_usadas, peso_restante) ==
    Max(num_cajas_usadas, Ceil(peso_restante, c)) + 1

calcular_lower_bound(c, num_cajas_usadas, peso_restante) ==
    Max(num_cajas_usadas, Ceil(peso_restante, c))

\* len(cajas_actuales) < mejor_num_cajas - 1
NewBinGuard(cajas, mejor) == mejor.inf \/ Len(cajas) < mejor.n - 1

RECURSIVE branch_and_bound(_, _, _, _, _, _)
RECURSIVE TryCajas(_, _, _, _, _, _, _)

\* the for loop over the existing bins, from bin i on; returns the incumbent
TryCajas(c, lista, i, indice, cajas, nuevo_peso_restante, mejor) ==
    IF i > Len(cajas) THEN mejor
    ELSE LET peso_objeto == lista[indice + 1]
             b1 == IF Sum(cajas[i]) + peso_objeto <= c
                   THEN branch_and_bound(c, lista, indice + 1,
                            [cajas EXCEPT ![i] = Append(@, peso_objeto)],
                            nuevo_peso_restante, mejor)
                   ELSE mejor
         IN TryCajas(c, lista, i + 1, indice, cajas, nuevo_peso_restante, b1)

\* returns the incumbent (mejor_num_cajas, mejor_cajas) after the call
branch_and_bound(c, lista, indice, cajas, peso_restante, mejor) ==
    IF indice = Len(lista)
    THEN IF LessThanBest(Len(cajas), mejor)
         THEN Result(Len(cajas), cajas)
         ELSE mejor
    ELSE IF ~LessThanBest(calcular_lower_bound(c, Len(cajas), peso_restante), mejor)
    THEN mejor
    ELSE LET peso_objeto == lista[indice + 1]
             nuevo == peso_restante - peso_objeto
             b1 == TryCajas(c, lista, 1, indice, cajas, nuevo, mejor)
         IN IF NewBinGuard(cajas, b1)
            THEN branch_and_bound(c, lista, indice + 1,
                     Append(cajas, <<peso_objeto>>), nuevo, b1)
            ELSE b1

resultado_optimo(c, lista) ==
    branch_and_bound(c, lista, 0, <<>>, Sum(lista), NoBest)

\* ---- next_fit ----

next_fit_step(c, cajas, objeto) ==
    IF Sum(cajas[Len(cajas)]) + objeto <= c
    THEN [cajas EXCEPT ![Len(cajas)] = Append(@, objeto)]
    ELSE Append(cajas, <<objeto>>)

RECURSIVE next_fit_loop(_, _, _)
next_fit_loop(c, cajas, rest) ==
    IF rest = <<>> THEN cajas
    ELSE next_fit_loop(c, next_fit_step(c, cajas, Head(rest)), Tail(rest))

next_fit(c, lista) ==
    IF lista = <<>> THEN Result(0, <<>>)
    ELSE LET cajas == next_fit_loop(c, <<<<Head(lista)>>>>, Tail(lista))
         IN Result(Len(cajas), cajas)

\* ---- first_fit ----

RECURSIVE first_fit_find(_, _, _, _)
\* index of the first bin from i on where objeto fits, 0 when none (colocado = False)
first_fit_find(c, cajas, objeto, i) ==
    IF i > Len(cajas) THEN 0
    ELSE IF Sum(cajas[i]) + objeto <= c THEN i
    ELSE first_fit_find(c, cajas, objeto, i + 1)

first_fit_step(c, cajas, objeto) ==
    LET i == first_fit_find(c, cajas, objeto, 1)
    IN IF i # 0 THEN [cajas EXCEPT ![i] = Append(@, objeto)]
       ELSE Append(cajas, <<objeto>>)

RECURSIVE first_fit_loop(_, _, _)
first_fit_loop(c, cajas, rest) ==
    IF rest = <<>> THEN cajas
    ELSE first_fit_loop(c, first_fit_step(c, cajas, Head(rest)), Tail(rest))

first_fit(c, lista) ==
    IF lista = <<>> THEN Result(0, <<>>)
    ELSE LET cajas == first_fit_loop(c, <<>>, lista)
         IN Result(Len(cajas), cajas)

\* ---- best_fit ----

RECURSIVE best_fit_find_last_tie(_, _, _, _, _, _)
\* the scan with <= for <: of two bins equally tight the later one wins
best_fit_find_last_tie(c, cajas, objeto, i, mejor_caja, menor_espacio) ==
    IF i > Len(cajas) THEN mejor_caja
    ELSE LET espacio_restante == c - Sum(cajas[i])
         IN IF objeto <= espacio_restante /\ espacio_restante <= menor_espacio
            THEN best_fit_find_last_tie(c, cajas, objeto, i + 1, i, espacio_restante)
            ELSE best_fit_find_last_tie(c, cajas, objeto, i + 1, mejor_caja, menor_espacio)

RECURSIVE best_fit_find(_, _, _, _, _, _)
\* the scan of the bins from i on; mejor_caja is 1-based, 0 for -1
best_fit_find(c, cajas, objeto, i, mejor_caja, menor_espacio) ==
    IF i > Len(cajas) THEN mejor_caja
    ELSE LET espacio_restante == c - Sum(cajas[i])
         IN IF objeto <= espacio_restante /\ espacio_restante < menor_espacio
            THEN best_fit_find(c, cajas, objeto, i + 1, i, espacio_restante)
            ELSE best_fit_find(c, cajas, objeto, i + 1, mejor_caja, menor_espacio)

best_fit_step(c, cajas, objeto) ==
    LET mejor_caja == best_fit_find(c, cajas, objeto, 1, 0, c + 1)
    IN IF mejor_caja # 0 THEN [cajas EXCEPT ![mejor_caja] = Append(@, objeto)]
       ELSE Append(cajas, <<objeto>>)

RECURSIVE best_fit_loop(_, _, _)
best_fit_loop(c, cajas, rest) ==
    IF rest = <<>> THEN cajas
    ELSE best_fit_loop(c, best_fit_step(c, cajas, Head(rest)), Tail(rest))

best_fit(c, lista) ==
    IF lista = <<>> THEN Result(0, <<>>)
    ELSE LET cajas == best_fit_loop(c, <<>>, lista)
         IN Result(Len(cajas), cajas)

\* ---- decreasing variants ----

first_fit_decreasing(c, lista) == first_fit(c, SortedDesc(lista))

best_fit_decreasing(c, lista) == best_fit(c, SortedDesc(lista))

-----------------------------------------------------------------------------
(* src/Genetico.py *)

\* SpecGA: the genetic algorithm
MaxItemsGA == 3
MaxSizeGA == 2
MaxCapGA == 2
MaxPop == 4
\* total item size times population size
MaxCells == 9
MaxGen == 3
MaxPatience == 2
\* mutation_rate and random.random() are multiples of 1/RateDen
RateDen == 2
\* the item counts run with mutation_rate > 0
MaxMutItems == 1

\* last_best_bins = None
None == -1

\* set(solution)
Labels(solution) == {solution[i] : i \in DOMAIN solution}

RECURSIVE BinsSumFrom(_, _, _, _)
\* the total size of the items at positions i.. that solution labels b
BinsSumFrom(solution, its, b, i) ==
    IF i > Len(solution) THEN 0
    ELSE (IF solution[i] = b THEN its[i] ELSE 0)
         + BinsSumFrom(solution, its, b, i + 1)

\* bins_sum[b] of fitness
BinsSum(solution, its, b) == BinsSumFrom(solution, its, b, 1)

RECURSIVE Penalty(_, _, _, _)
\* sum(max(0, w - capacidad) for w in bins_sum.values()), over the labels in S
Penalty(solution, its, c, S) ==
    IF S = {} THEN 0
    ELSE LET b == CHOOSE x \in S : TRUE
         IN Max(0, BinsSum(solution, its, b) - c)
            + Penalty(solution, its, c, S \ {b})

fitness(solution, its, c) ==
    Cardinality(Labels(solution))
    + Penalty(solution, its, c, Labels(solution)) * 10

\* the position min(...) returns for the keys: the first of the smallest
FirstMin(key) ==
    CHOOSE i \in DOMAIN key :
        /\ \A j \in DOMAIN key : key[i] <= key[j]
        /\ \A j \in DOMAIN key : j < i => key[j] > key[i]

RECURSIVE Keys(_, _, _)
\* the key of every element of seq, each computed once
Keys(seq, its, c) ==
    IF seq = <<>> THEN <<>>
    ELSE <<fitness(Head(seq), its, c)>> \o Keys(Tail(seq), its, c)

\* min(seq, key=lambda s: fitness(s, items, capacidad)) of a non-empty seq
MinByFitness(seq, its, c) == seq[FirstMin(Keys(seq, its, c))]

RECURSIVE OrdenIds(_, _)
\* orden_ids of decodificar_bins: the labels in order of first appearance
OrdenIds(solution, acc) ==
    IF solution = <<>> THEN acc
    ELSE IF \E j \in DOMAIN acc : acc[j] = Head(solution)
         THEN OrdenIds(Tail(solution), acc)
         ELSE OrdenIds(Tail(solution), Append(acc, Head(solution)))

\* id_map[old] + 1: the position of old in orden_ids
IdMap(orden_ids, old) == CHOOSE j \in DOMAIN orden_ids : orden_ids[j] = old

RECURSIVE FillBins(_, _, _, _, _)
\* the second loop of decodificar_bins; bins_dict[k] is bins[k + 1]
FillBins(solution, its, orden_ids, i, bins) ==
    IF i > Len(solution) THEN bins
    ELSE LET bid == IdMap(orden_ids, solution[i])
             b1 == IF bid > Len(bins) THEN Append(bins, <<>>) ELSE bins
         IN FillBins(solution, its, orden_ids, i + 1,
                     [b1 EXCEPT ![bid] = Append(@, its[i])])

decodificar_bins_drop_last(solution, its) ==
    FillBins(SubSeq(solution, 1, Len(solution) - 1), its,
             OrdenIds(solution, <<>>), 1, <<>>)

decodificar_bins(solution, its) ==
    FillBins(solution, its, OrdenIds(solution, <<>>), 1, <<>>)

\* every value generate_population can return
generate_population(n_items, pop_size) ==
    [1..pop_size -> [1..n_items -> 0..(n_items - 1)]]

\* An outcome of a call that may raise: err = "" and the value, or the exception.
Ok(v) == [err |-> "", val |-> v]
Raise(e) == [err |-> e, val |-> <<>>]

\* the exceptions the random module raises
SampleError == "selection: ValueError in random.sample(pop, 3)"
CrossoverError == "crossover: ValueError in random.randint(1, len(parent1) - 2)"
MutateError == "mutate: ValueError in random.randint(0, len(solution) - 1)"

\* random.sample(pop, k): the k-tuples of distinct positions of pop, k = 3
Samples3(pop) ==
    UNION {UNION {{<<i, j, k>> : k \in (DOMAIN pop) \ {i, j}} :
                    j \in (DOMAIN pop) \ {i}} :
             i \in DOMAIN pop}

\* every outcome of selection(pop, items, capacidad, k=3)
selection(pop, its, c) ==
    IF Len(pop) < 3
    THEN {Raise(SampleError)}
    ELSE LET key == Keys(pop, its, c)
         IN {Ok(pop[t[FirstMin(<<key[t[1]], key[t[2]], key[t[3]]>>)]]) :
               t \in Samples3(pop)}

\* parent1[:point] + parent2[point:]
Splice(parent1, parent2, point) ==
    SubSeq(parent1, 1, point) \o SubSeq(parent2, point + 1, Len(parent2))

\* every outcome of crossover(parent1, parent2); val is <<child1, child2>>
crossover(parent1, parent2) ==
    IF Len(parent1) < 2 THEN {Ok(<<parent1, parent2>>)}
    ELSE IF Len(parent1) - 2 < 1
    THEN {Raise(CrossoverError)}
    ELSE {Ok(<<Splice(parent1, parent2, point), Splice(parent2, parent1, point)>>) :
            point \in 1..(Len(parent1) - 2)}

\* every outcome of mutate(solution, mutation_rate)
mutate(solution, rate) ==
    UNION {IF r < rate
           THEN IF Len(solution) = 0
                THEN {Raise(MutateError)}
                ELSE {Ok([solution EXCEPT ![idx + 1] = v]) :
                        idx \in 0..(Len(solution) - 1), v \in 0..(Len(solution) - 1)}
           ELSE {Ok(solution)}
           : r \in 0..(RateDen - 1)}


\* the while loop of a generation: every outcome, the filled new_population
\* or the exception that ended the call
RECURSIVE Reproduce(_, _, _, _, _, _)
Reproduce(new_population, pop, its, c, pop_size, rate) ==
    IF ~(Len(new_population) < pop_size) THEN {Ok(new_population)}
    ELSE LET sel == selection(pop, its, c) IN UNION {
      IF p1.err # "" THEN {p1} ELSE UNION {
        IF p2.err # "" THEN {p2} ELSE UNION {
          IF ch.err # "" THEN {ch} ELSE UNION {
            IF m1.err # "" THEN {m1}
            ELSE LET np1 == Append(new_population, m1.val)
                 IN IF Len(np1) < pop_size
                    THEN UNION {
                           IF m2.err # "" THEN {m2}
                           ELSE Reproduce(Append(np1, m2.val), pop, its, c,
                                          pop_size, rate)
                           : m2 \in mutate(ch.val[2], rate)}
                    ELSE Reproduce(np1, pop, its, c, pop_size, rate)
            : m1 \in mutate(ch.val[1], rate)}
          : ch \in crossover(p1.val, p2.val)}
        : p2 \in sel}
      : p1 \in sel}

\* elitism and reproduction: every outcome of lines 99-114
NewPopulation(pop, its, c, pop_size, rate) ==
    Reproduce(<<MinByFitness(pop, its, c)>>, pop, its, c, pop_size, rate)

\* the update of the global best
BetterThanOverall(best_gen, best_bins_gen, overall, bins_overall, its, c) ==
    \/ best_bins_gen < bins_overall
    \/ /\ best_bins_gen = bins_overall
       /\ fitness(best_gen, its, c) < fitness(overall, its, c)

\* a reset on improvement only
Changed_only_improvement(last, best_bins_gen) ==
    last = None \/ best_bins_gen < last

\* the early-stopping test: a change of the generation's best bin count
Changed(last, best_bins_gen) == last = None \/ best_bins_gen # last

-----------------------------------------------------------------------------
(* The deterministic solvers: one call of one solver on one input. *)

GAIdle ==
    /\ population_size = 0 /\ generations = 0 /\ mutation_rate = 0
    /\ patience_no_change = 0 /\ population = <<>> /\ best_overall = <<>>
    /\ best_bins_overall = 0 /\ last_best_bins = None
    /\ gens_without_change = 0 /\ history_bins = <<>> /\ gen = 0
    /\ stopped = FALSE /\ best = <<>>

\* the solvers of src/Algoritmos.py
PackSolvers == {"resultado_optimo", "next_fit", "first_fit", "best_fit",
                "first_fit_decreasing", "best_fit_decreasing"}

\* the greedy strategies
Greedy == PackSolvers \ {"resultado_optimo"}

\* the four solvers SpecDec compares
DecSolvers == {"first_fit", "best_fit", "first_fit_decreasing",
               "best_fit_decreasing"}

\* a call that has not run yet
Called(solvers) ==
    /\ alg \in solvers /\ pc = "start" /\ res = Result(0, <<>>) /\ err = ""

PackInit ==
    /\ capacidad \in 1..MaxCap
    /\ items \in SeqsUpTo(1..MaxSize, MaxLen)
    /\ Called(PackSolvers) /\ GAIdle

DecInit ==
    /\ capacidad \in 1..MaxCapDec
    /\ items \in SeqsUpTo(1..MaxSizeDec, MaxLenDec)
    /\ Called(DecSolvers) /\ GAIdle

Return(name, r) ==
    /\ pc = "start" /\ alg = name
    /\ pc' = "done" /\ res' = r
    /\ UNCHANGED <<capacidad, items, alg, err>>
    /\ UNCHANGED gaVars

RunResultadoOptimo == Return("resultado_optimo", resultado_optimo(capacidad, items))
RunNextFit == Return("next_fit", next_fit(capacidad, items))
RunFirstFit == Return("first_fit", first_fit(capacidad, items))
RunBestFit == Return("best_fit", best_fit(capacidad, items))
RunFirstFitDecreasing ==
    Return("first_fit_decreasing", first_fit_decreasing(capacidad, items))
RunBestFitDecreasing ==
    Return("best_fit_decreasing", best_fit_decreasing(capacidad, items))

PackNext ==
    \/ RunResultadoOptimo
    \/ RunNextFit
    \/ RunFirstFit
    \/ RunBestFit
    \/ RunFirstFitDecreasing
    \/ RunBestFitDecreasing

DecNext ==
    \/ RunFirstFit
    \/ RunBestFit
    \/ RunFirstFitDecreasing
    \/ RunBestFitDecreasing

SpecPack == PackInit /\ [][PackNext]_vars

SpecDec == DecInit /\ [][DecNext]_vars

-----------------------------------------------------------------------------
(* best_fit, one iteration of its loop at a time.  While pc = "loop",      *)
(* res.cajas holds the local `cajas`; the items are taken in input order,  *)
(* so the next one is the one after those already in the bins.             *)

RECURSIVE Placed(_)
\* the number of items in the bins
Placed(cajas) ==
    IF cajas = <<>> THEN 0 ELSE Len(Head(cajas)) + Placed(Tail(cajas))

BestFitInit == PackInit /\ alg = "best_fit"

\* `if not lista_de_objetos: return 0, []`, else `cajas = []`
BestFitEnter ==
    /\ pc = "start" /\ alg = "best_fit"
    /\ pc' = IF items = <<>> THEN "done" ELSE "loop"
    /\ res' = Result(0, <<>>)
    /\ UNCHANGED <<capacidad, items, alg, err>>
    /\ UNCHANGED gaVars

\* one iteration of `for objeto in lista_de_objetos`
BestFitStep ==
    /\ pc = "loop" /\ alg = "best_fit"
    /\ Placed(res.cajas) < Len(items)
    /\ LET objeto == items[Placed(res.cajas) + 1]
           cajas == best_fit_step(capacidad, res.cajas, objeto)
       IN res' = Result(Len(cajas), cajas)
    /\ UNCHANGED <<capacidad, items, pc, alg, err>>
    /\ UNCHANGED gaVars

\* `return len(cajas), cajas`
BestFitReturn ==
    /\ pc = "loop" /\ alg = "best_fit"
    /\ Placed(res.cajas) = Len(items)
    /\ pc' = "done"
    /\ UNCHANGED <<capacidad, items, alg, res, err>>
    /\ UNCHANGED gaVars

BestFitNext == BestFitEnter \/ BestFitStep \/ BestFitReturn

SpecBestFit == BestFitInit /\ [][BestFitNext]_vars

-----------------------------------------------------------------------------
(* genetic_algorithm_bpp: one call. *)

GAInit ==
    /\ capacidad = MaxCapGA
    /\ items \in SeqsUpTo(1..MaxSizeGA, MaxItemsGA)
    /\ population_size \in 1..MaxPop
    /\ Sum(items) * population_size <= MaxCells
    /\ generations = MaxGen
    /\ mutation_rate \in 0..RateDen
    /\ (mutation_rate = 0 \/ Len(items) <= MaxMutItems)
    /\ patience_no_change \in 1..MaxPatience
    /\ Called({"genetic_algorithm_bpp"})
    /\ population = <<>> /\ best_overall = <<>> /\ best_bins_overall = 0
    /\ last_best_bins = None /\ gens_without_change = 0
    /\ history_bins = <<>> /\ gen = 0 /\ stopped = FALSE /\ best = <<>>

gaParams == <<capacidad, items, population_size, generations, mutation_rate,
              patience_no_change>>

\* lines 82-96: the initial population and the initial global best
GAStart ==
    /\ pc = "start" /\ alg = "genetic_algorithm_bpp"
    /\ population' \in generate_population(Len(items), population_size)
    /\ history_bins' = <<>>
    /\ best_overall' = MinByFitness(population', items, capacidad)
    /\ best_bins_overall' = Cardinality(Labels(best_overall'))
    /\ last_best_bins' = None
    /\ gens_without_change' = 0
    /\ pc' = "loop"
    /\ UNCHANGED <<gaParams, alg, res, gen, stopped, best, err>>

\* lines 98-136: one iteration of the generation loop
Generation ==
    /\ pc = "loop" /\ gen < generations /\ ~stopped
    /\ \E o \in NewPopulation(population, items, capacidad, population_size,
                              mutation_rate) :
         IF o.err # ""
         THEN /\ pc' = "error" /\ err' = o.err
              /\ UNCHANGED <<gaParams, alg, res, population, best_overall,
                             best_bins_overall, last_best_bins,
                             gens_without_change, history_bins, gen, stopped,
                             best>>
         ELSE LET best_gen == MinByFitness(o.val, items, capacidad)
                  best_bins_gen == Cardinality(Labels(best_gen))
                  better == BetterThanOverall(best_gen, best_bins_gen,
                                best_overall, best_bins_overall, items, capacidad)
                  changed == Changed(last_best_bins, best_bins_gen)
              IN /\ population' = o.val
                 /\ history_bins' = Append(history_bins, best_bins_gen)
                 /\ best_overall' = IF better THEN best_gen ELSE best_overall
                 /\ best_bins_overall' =
                        IF better THEN best_bins_gen ELSE best_bins_overall
                 /\ last_best_bins' =
                        IF changed THEN best_bins_gen ELSE last_best_bins
                 /\ gens_without_change' =
                        IF changed THEN 0 ELSE gens_without_change + 1
                 /\ stopped' = (~changed /\
                                gens_without_change + 1 >= patience_no_change)
                 /\ gen' = gen + 1
                 /\ UNCHANGED <<gaParams, pc, alg, res, best, err>>

\* lines 138-141: the final best, decoded
GAFinish ==
    /\ pc = "loop" /\ (~(gen < generations) \/ stopped)
    /\ best' = MinByFitness(<<best_overall>> \o population, items, capacidad)
    /\ LET bins_list == decodificar_bins(best', items)
       IN res' = Result(Len(bins_list), bins_list)
    /\ pc' = "done"
    /\ UNCHANGED <<gaParams, alg, population, best_overall, best_bins_overall,
                   last_best_bins, gens_without_change, history_bins, gen,
                   stopped, err>>

GANext == GAStart \/ Generation \/ GAFinish

SpecGA == GAInit /\ [][GANext]_vars

\* every solver
AllInit == PackInit \/ GAInit

AllNext == PackNext \/ GANext

SpecAll == AllInit /\ [][AllNext]_vars

Spec == SpecPack

-----------------------------------------------------------------------------
(* What the claims are stated with. *)

\* every item fits in an empty bin
ItemsFit == \A i \in DOMAIN items : items[i] <= capacidad

\* every bin of the packing holds at most the capacity
Feasible(cajas) == \A b \in DOMAIN cajas : Sum(cajas[b]) <= capacidad

\* the number of v in seq
Count(seq, v) == Cardinality({i \in DOMAIN seq : seq[i] = v})

RECURSIVE Flatten(_)
\* the items of the bins, bin after bin
Flatten(cajas) ==
    IF cajas = <<>> THEN <<>> ELSE Head(cajas) \o Flatten(Tail(cajas))

\* the two sequences hold the same sizes, each as many times
SameMultiset(s, t) ==
    /\ Len(s) = Len(t)
    /\ \A i \in DOMAIN s : Count(s, s[i]) = Count(t, s[i])

\* max of a sequence of naturals, 0 when empty
RECURSIVE MaxOf(_)
MaxOf(s) == IF s = <<>> THEN 0 ELSE Max(Head(s), MaxOf(Tail(s)))

RECURSIVE Partitions(_)
\* The partitions of n items into bins, each once: f[i] is the bin of item
\* i, and a bin is numbered after the first item it holds.
Partitions(n) ==
    IF n = 0 THEN {<<>>}
    ELSE UNION {{Append(f, b) : b \in 1..(MaxOf(f) + 1)} : f \in Partitions(n - 1)}

\* the partition leaves no bin over the capacity
PartitionFits(f) ==
    \A b \in 1..MaxOf(f) : BinsSum(f, items, b) <= capacidad

\* the fewest bins of a partition of the items that fits
MinBins ==
    LET ks == {MaxOf(f) : f \in {g \in Partitions(Len(items)) : PartitionFits(g)}}
    IN CHOOSE k \in ks : \A j \in ks : k <= j

Returned(name) == pc = "done" /\ alg = name

-----------------------------------------------------------------------------
(* C1: when every item is at most the capacity, resultado_optimo returns a *)
(* finite bin count equal to the fewest bins of any partition of the items *)
(* whose bins all hold at most the capacity.                               *)
C1_Optimal ==
    (Returned("resultado_optimo") /\ ItemsFit)
        => (~res.inf /\ res.n = MinBins)

\* five items whose optimum of two bins or more is below First Fit's count
C1_Witness ==
    /\ Returned("resultado_optimo") /\ ItemsFit
    /\ Len(items) = MaxLen
    /\ res.n = MinBins /\ res.n >= 2
    /\ res.n < first_fit(capacidad, items).n

(* C2 as claimed: for every capacity > 0 and items > 0, every bin returned *)
(* by the five greedy strategies and by resultado_optimo holds at most the *)
(* capacity.                                                               *)
C2_Original ==
    (pc = "done" /\ alg \in PackSolvers) => Feasible(res.cajas)

\* where C2 fails: only on an input with an item larger than the capacity
C2_FailsOnlyOnOversizeItem ==
    (pc = "done" /\ alg \in PackSolvers /\ ItemsFit) => Feasible(res.cajas)

(* C3: every solver returns a partition of its input: the sizes in the     *)
(* returned bins are the input's sizes, each as many times, and the        *)
(* returned count is the number of returned bins.                         *)
C3_Partition ==
    pc = "done" =>
        /\ SameMultiset(items, Flatten(res.cajas))
        /\ ~res.inf
        /\ res.n = Len(res.cajas)

\* the genetic algorithm returned two bins for three items of two sizes
C3_Witness ==
    /\ Returned("genetic_algorithm_bpp")
    /\ Len(items) = 3 /\ \E i, j \in DOMAIN items : items[i] # items[j]
    /\ res.n = 2
    /\ SameMultiset(items, Flatten(res.cajas))

(* C4 as claimed: on every input first_fit_decreasing uses at most as many *)
(* bins as first_fit, and best_fit_decreasing at most as many as best_fit. *)
C4_Original ==
    /\ Returned("first_fit_decreasing") => res.n <= first_fit(capacidad, items).n
    /\ Returned("best_fit_decreasing") => res.n <= best_fit(capacidad, items).n

(* C4 amended: the same, on every input of at most five items.             *)
C4_AtMostFiveItems ==
    Len(items) <= 5 =>
        /\ Returned("first_fit_decreasing")
              => res.n <= first_fit(capacidad, items).n
        /\ Returned("best_fit_decreasing")
              => res.n <= best_fit(capacidad, items).n

\* five items on which the decreasing variant saves a bin
C4_Witness ==
    /\ Returned("first_fit_decreasing")
    /\ Len(items) = 5
    /\ res.n < first_fit(capacidad, items).n

(* C5 as claimed: for every capacity > 0 and items > 0, each greedy        *)
(* strategy returns at least minimo_teorico(capacity, items) bins.         *)
C5_Original ==
    (pc = "done" /\ alg \in Greedy) => res.n >= minimo_teorico(capacidad, items)

\* where C5 fails: only on an input with an item larger than the capacity
C5_FailsOnlyOnOversizeItem ==
    (pc = "done" /\ alg \in Greedy /\ ItemsFit)
        => res.n >= minimo_teorico(capacidad, items)

-----------------------------------------------------------------------------
(* The claims about genetic_algorithm_bpp. *)

GACall == alg = "genetic_algorithm_bpp"

(* C6 as claimed, for the populations a tournament can be drawn from: on   *)
(* an empty item sequence genetic_algorithm_bpp raises nothing and returns *)
(* zero bins and an empty packing, whatever the mutation rate in [0, 1].   *)
C6_EmptyInput ==
    (GACall /\ Len(items) = 0 /\ population_size >= 3) =>
        /\ pc # "error"
        /\ pc = "done" => (res.n = 0 /\ res.cajas = <<>>)

(* C7 as claimed: the packing genetic_algorithm_bpp returns has no bin     *)
(* over the capacity (stated here for items that each fit in a bin).       *)
C7_FinalFeasible ==
    (Returned("genetic_algorithm_bpp") /\ ItemsFit) => Feasible(res.cajas)

RECURSIVE TrailingRepeats(_)
\* how many of the last entries of h equal the entry before them
TrailingRepeats(h) ==
    IF Len(h) < 2 THEN 0
    ELSE IF h[Len(h)] = h[Len(h) - 1]
         THEN 1 + TrailingRepeats(SubSeq(h, 1, Len(h) - 1))
         ELSE 0

(* C8: the history holds one entry per generation run and never more than  *)
(* `generations`; the no-change counter is the number of latest            *)
(* generations whose best bin count equals that of the generation before   *)
(* (so any change, up or down, resets it to zero); the loop is left by     *)
(* `break` exactly when that number reaches patience_no_change; and the    *)
(* call returns only after a break or after `generations` iterations.      *)
C8_EarlyStopping ==
    (GACall /\ pc \in {"loop", "done"}) =>
        /\ Len(history_bins) = gen
        /\ gen <= generations
        /\ gens_without_change = TrailingRepeats(history_bins)
        /\ stopped <=> (TrailingRepeats(history_bins) >= patience_no_change)
        /\ pc = "done" => (stopped \/ gen = generations)

\* three items, a population that evolves, and a break before the last generation
C8_Witness ==
    /\ GACall /\ pc = "loop"
    /\ Len(items) = 3 /\ population_size >= 3
    /\ stopped /\ gen < generations
    /\ TrailingRepeats(history_bins) = patience_no_change

(* C9 as claimed: on two parents of equal length n, crossover raises       *)
(* nothing; for n >= 2 the children are parent1[:p] + parent2[p:] and      *)
(* parent2[:p] + parent1[p:] for a cut point p in [1, n-2]; for n < 2 they *)
(* are the parents; both children have length n.  The parents are the      *)
(* vectors of a population the generation loop reproduces from.            *)
C9_Crossover ==
    (GACall /\ population_size >= 3) => \A i, j \in DOMAIN population :
        LET parent1 == population[i]
            parent2 == population[j]
            n == Len(parent1)
        IN \A o \in crossover(parent1, parent2) :
              /\ o.err = ""
              /\ Len(o.val[1]) = n /\ Len(o.val[2]) = n
              /\ n < 2 => o.val = <<parent1, parent2>>
              /\ n >= 2 => \E p \in 1..(n - 2) :
                              o.val = <<Splice(parent1, parent2, p),
                                        Splice(parent2, parent1, p)>>

(* C10 as claimed, for three items or more: whatever population_size > 0,  *)
(* every generation completes, and the population it leaves holds exactly  *)
(* population_size vectors, each of one label per item.                    *)
C10_GenerationCompletes ==
    (GACall /\ population_size > 0 /\ Len(items) >= 3) =>
        /\ pc # "error"
        /\ pc \in {"loop", "done"} =>
              /\ Len(population) = population_size
              /\ \A i \in DOMAIN population : Len(population[i]) = Len(items)

-----------------------------------------------------------------------------
(* The claim about the placement rule of best_fit. *)

\* the room left in bin i of cajas
Remaining(cajas, i) == capacidad - Sum(cajas[i])

\* the bins of cajas with room for objeto
Fitting(cajas, objeto) ==
    {i \in DOMAIN cajas : Remaining(cajas, i) >= objeto}

\* the iterations of the loop give what a call returns
BestFitStepsAgree ==
    (alg = "best_fit" /\ pc = "done") => res = best_fit(capacidad, items)

(* C11: every iteration of best_fit takes the next item of the input; when *)
(* some existing bin has room for it, the item is appended to the bin with *)
(* the least room among those (the earliest of them on ties), a bin that   *)
(* has room for it; a new bin is opened, holding the item alone, only when *)
(* no existing bin has room.                                               *)
C11_BestFitPlacement ==
    [][BestFitStep =>
        LET cajas == res.cajas
            objeto == items[Placed(cajas) + 1]
            fits == Fitting(cajas, objeto)
        IN IF fits = {}
           THEN res'.cajas = Append(cajas, <<objeto>>)
           ELSE \E j \in fits :
                   /\ Remaining(cajas, j) >= objeto
                   /\ \A i \in fits :
                         \/ Remaining(cajas, j) < Remaining(cajas, i)
                         \/ Remaining(cajas, j) = Remaining(cajas, i) /\ j <= i
                   /\ res'.cajas = [cajas EXCEPT ![j] = Append(@, objeto)]
                   /\ Len(res'.cajas) = Len(cajas)
    ]_vars

\* the latest item went into the second bin: the first had more room for
\* it, and the third as little room as the second
C11_Witness ==
    /\ alg = "best_fit" /\ pc = "loop"
    /\ Placed(res.cajas) >= 1
    /\ LET k == Placed(res.cajas)
           objeto == items[k]
           before == best_fit_loop(capacidad, <<>>, SubSeq(items, 1, k - 1))
       IN /\ Len(before) >= 3
          /\ Remaining(before, 2) >= objeto
          /\ Remaining(before, 1) > Remaining(before, 2)
          /\ Remaining(before, 3) = Remaining(before, 2)
          /\ res.cajas = [before EXCEPT ![2] = Append(@, objeto)]

=============================================================================
